---- MODULE Spec2Model ----
(***************************************************************************)
(* Organizer onboarding and authentication of the auth-service:            *)
(* register -> pending -> admin approval -> login.                         *)
(*                                                                         *)
(* Every request handler is an async function; between two awaits it runs  *)
(* without interruption, and at each await other handlers may run.  Each   *)
(* action below is one such uninterrupted stretch: it ends at the          *)
(* completion of an awaited call (a query of the pool, bcrypt, the mail    *)
(* transport) or at the response.                                          *)
(***************************************************************************)
EXTENDS Bags, Integers, Sequences, FiniteSets, TLC

\* ---------------------------------------------------------------- bounds
MaxRequests == 3      \* requests received in one behaviour

\* The requests in flight together: every race of this workflow is between two.
Handlers == {"h1", "h2"}

\* ---------------------------------------------------------------- inputs
Emails    == {"a@mail.com", "b@mail.com"}
Passwords == {"pass", "wrong"}
OrganizerIds == 1..2          \* req.params.organizerId of the approval link

VARIABLES
    organizers,     \* table Organizer: sequence of rows, row i has organizer_ID i
    h,              \* h[p]: the handler invocation p (position, request, locals, response)
    requests,       \* number of requests received so far
    adminMails,     \* bag of the approval requests mailed to the admin (sendApprovalEmail)
    approvedMails,  \* approvedMails[id]: organizer-approved mails sent for id
    commits,        \* commits[id]: status transitions pending -> approved written for id
    ADMIN_EMAIL,    \* process.env.ADMIN_NOTIFY_EMAIL, read once at module load
    buildings,      \* table Building: sequence of rows, row i has building_id i
    bh,             \* bh[p]: the invocation p of a handler of the building service
    events,         \* table Events: sequence of rows, row i has event_id i
    eh              \* eh[p]: the invocation p of a handler of the event service

\* the state of the building service
buildingVars == <<buildings, bh>>

\* the state of the event service
eventVars == <<events, eh>>

vars == <<organizers, h, requests, adminMails, approvedMails, commits, ADMIN_EMAIL,
          buildingVars, eventVars>>

\* ---------------------------------------------------------------- values
NoRow == [organizer_ID |-> 0, organizer_name |-> "", fname |-> "", lname |-> "",
          email |-> "", password_hash |-> <<>>, status |-> "none"]

NoToken == [id |-> 0, username |-> "", expiresIn |-> ""]

NoBody == [fname |-> "", lname |-> "", email |-> "", password |-> "", organizerId |-> 0]

\* req.body of POST /register: complete bodies, and bodies with one required
\* field missing or empty
RegisterBodies ==
    LET full == {[NoBody EXCEPT !.fname = "John", !.lname = "Doe", !.email = e,
                                !.password = "pass"] : e \in Emails}
        b    == [NoBody EXCEPT !.fname = "John", !.lname = "Doe", !.email = "a@mail.com",
                               !.password = "pass"]
    IN  full \cup {[b EXCEPT !.fname = ""], [b EXCEPT !.lname = ""],
                   [b EXCEPT !.email = ""], [b EXCEPT !.password = ""]}

\* req.body of POST /login
LoginBodies ==
    {[NoBody EXCEPT !.email = e, !.password = pw] : e \in Emails, pw \in Passwords}
        \cup {[NoBody EXCEPT !.email = "a@mail.com"], [NoBody EXCEPT !.password = "pass"]}

NoResponse == [status |-> 0, message |-> "", error |-> "", token |-> NoToken,
               organizer |-> NoRow, rows |-> <<>>]

\* sent counts the responses written to res (res.json) by the invocation
Idle == [pc |-> "idle", op |-> "none", body |-> NoBody, user |-> NoRow,
         hash |-> <<>>, calls |-> {}, resp |-> NoResponse, sent |-> 0]

\* a row of Building; zone_id 0 and the empty strings stand for null
NoBuilding == [building_id |-> 0, zone_id |-> 0, building_name |-> "", description |-> ""]

NoBuildingResponse == [status |-> 0, message |-> "", error |-> "", building |-> NoBuilding,
                       rows |-> <<>>]

BuildingIdle == [pc |-> "idle", op |-> "none", id |-> 0, body |-> NoBuilding, calls |-> {},
                 resp |-> NoBuildingResponse, sent |-> 0]

\* a row of Events; the empty strings and organizer_id 0 stand for null
NoEvent == [event_id |-> 0, event_name |-> "", start_time |-> "", end_time |-> "",
            location |-> "", description |-> "", media_urls |-> "",
            event_category |-> "", organizer_id |-> 0]

NoEventResponse == [status |-> 0, message |-> "", error |-> "", event |-> NoEvent,
                    rows |-> <<>>]

EventIdle == [pc |-> "idle", op |-> "none", id |-> 0, body |-> NoEvent, calls |-> {},
              resp |-> NoEventResponse, sent |-> 0]

\* res.status(s).json({ message: m })
Json(s, m) == [NoResponse EXCEPT !.status = s, !.message = m]

\* res.status(500).json({ message: "Internal server error", error: err.message })
InternalServerError(detail) ==
    [NoResponse EXCEPT !.status = 500, !.message = "Internal server error",
                       !.error = detail]

\* ---------------------------------------------------------------- bcrypt
\* bcrypt.hash(password, 10): a one-way value that is not the password
BcryptHash(password) == <<"$2b$10$", password>>

\* a comparison that accepts every password
BcryptCompare_Always(password, password_hash) == TRUE

\* bcrypt.compare(password, password_hash)
BcryptCompare(password, password_hash) == password_hash = BcryptHash(password)

\* ---------------------------------------------------------------- pool
\* a driver that kept the spelling of the statement for the key of the column
ColumnKey_AsWritten == "organizer_ID"

\* the key of the identifier in a result row: the statements write the column
\* unquoted (organizer_ID), PostgreSQL folds an unquoted identifier to lower
\* case, and the driver names the field of the row as the server does
ColumnKey == "organizer_id"

\* the value a missing property of a row evaluates to (undefined): no record
\* has it as its identifier
Undefined == NoRow.organizer_ID

\* row[key], for a key that spells the identifier in some case
Property(row, key) == IF key = ColumnKey THEN row.organizer_ID ELSE Undefined

\* SELECT * FROM Organizer WHERE email = $1
SelectByEmail(email) ==
    {organizers[i] : i \in {j \in DOMAIN organizers : organizers[j].email = email}}

\* rows[0] of a non-empty result
FirstRow(rows) == CHOOSE r \in rows : TRUE

\* a table without the unique index on email
UniqueViolation_NoIndex(email) == FALSE

\* the unique index organizer_email_key of table Organizer
UniqueViolation(email) == \E i \in DOMAIN organizers : organizers[i].email = email

\* an INSERT that creates the organizer already approved
NewOrganizer_Approved(body, password_hash) ==
    [organizer_ID   |-> Len(organizers) + 1,
     organizer_name |-> body.fname \o " " \o body.lname,
     fname          |-> body.fname,
     lname          |-> body.lname,
     email          |-> body.email,
     password_hash  |-> password_hash,
     status         |-> "approved"]

\* the row of INSERT INTO Organizer (...) VALUES ($1, ..., $7)
NewOrganizer(body, password_hash) ==
    [organizer_ID   |-> Len(organizers) + 1,
     organizer_name |-> body.fname \o " " \o body.lname,
     fname          |-> body.fname,
     lname          |-> body.lname,
     email          |-> body.email,
     password_hash  |-> password_hash,
     status         |-> "pending"]

\* RETURNING organizer_ID, organizer_name, fname, lname, email AS username, contact_no, status
Returning(row) == [row EXCEPT !.password_hash = <<>>]

\* ---------------------------------------------------------------- register
\* a validation that forgets the password
RequiredFieldsMissing_NoPassword(body) ==
    body.fname = "" \/ body.lname = "" \/ body.email = ""

\* !fname || !lname || !email || !password
RequiredFieldsMissing(body) ==
    body.fname = "" \/ body.lname = "" \/ body.email = "" \/ body.password = ""

\* the existence check dropped
EmailExists_Never(rows) == FALSE

\* existingUser.rows.length > 0
EmailExists(rows) == rows # {}

\* a return without the response
Finish_NoResponse(p, r) == h' = [h EXCEPT ![p].pc = "done"]

\* return res.status(...).json(...)
Finish(p, r) == h' = [h EXCEPT ![p].pc = "done", ![p].sent = @ + 1, ![p].resp = r]

\* A request arrives at a free handler.
Receive(p, op, body) ==
    /\ h[p].pc \in {"idle", "done"}
    /\ p = "h2" => h["h1"].pc \notin {"idle", "done"}
    /\ requests < MaxRequests
    /\ requests' = requests + 1
    /\ h' = [h EXCEPT ![p] = [Idle EXCEPT !.pc = "received", !.op = op, !.body = body]]
    /\ UNCHANGED <<organizers, adminMails, approvedMails, commits, ADMIN_EMAIL, buildingVars, eventVars>>

ReceiveRegister(p) ==
    \E body \in RegisterBodies : Receive(p, "register", body)

\* register, from its entry to the completion of bcrypt.hash: the validation,
\* the SELECT and, when no row has the email, the hash (which reads and writes
\* nothing that another handler sees)
RegisterSelect(p) ==
    /\ h[p].pc = "received" /\ h[p].op = "register"
    /\ UNCHANGED <<organizers, requests, adminMails, approvedMails, commits, ADMIN_EMAIL,
                   buildingVars, eventVars>>
    /\ IF RequiredFieldsMissing(h[p].body)
       THEN Finish(p, Json(400, "fname, lname, Email (username) and Password are required"))
       ELSE \/ h' = [h EXCEPT ![p].pc = "done", ![p].calls = {"select", "select_failed"},
                              ![p].sent = @ + 1,
                              ![p].resp = InternalServerError("select failed")]
            \/ /\ EmailExists(SelectByEmail(h[p].body.email))
               /\ h' = [h EXCEPT ![p].pc = "done", ![p].calls = {"select"},
                                 ![p].user = FirstRow(SelectByEmail(h[p].body.email)),
                                 ![p].sent = @ + 1,
                                 ![p].resp = Json(400, "Email (username) already registered")]
            \/ /\ ~EmailExists(SelectByEmail(h[p].body.email))
               /\ h' = [h EXCEPT ![p].pc = "done",
                                 ![p].calls = {"select", "hash", "hash_failed"},
                                 ![p].sent = @ + 1,
                                 ![p].resp = InternalServerError("hash failed")]
            \/ /\ ~EmailExists(SelectByEmail(h[p].body.email))
               /\ h' = [h EXCEPT ![p].pc = "insert", ![p].calls = {"select", "hash"},
                                 ![p].hash = BcryptHash(h[p].body.password)]

\* a notification attempted although no admin address is configured
AdminConfigured_Always == TRUE

\* if (ADMIN_EMAIL)
AdminConfigured == ADMIN_EMAIL

\* a response sent as soon as the row is inserted, with the mail still in flight
ResponseBeforeMail_Sent(row) ==
    [Json(201, "Registration request sent for admin approval.")
        EXCEPT !.organizer = Returning(row)]

\* between the INSERT and the completion of await sendApprovalEmail(...) the
\* handler calls nothing on res
ResponseBeforeMail(row) == NoResponse

\* await pool.query(INSERT ...), then either the mail is handed to the
\* transport or, with no admin address, the response is sent
RegisterInsert(p) ==
    /\ h[p].pc = "insert"
    /\ UNCHANGED <<requests, adminMails, approvedMails, commits, ADMIN_EMAIL, buildingVars, eventVars>>
    /\ \/ /\ UNCHANGED organizers
          /\ h' = [h EXCEPT ![p].pc = "done", ![p].calls = @ \cup {"insert", "insert_failed"},
                            ![p].sent = @ + 1,
                            ![p].resp = InternalServerError("insert failed")]
       \/ IF UniqueViolation(h[p].body.email)
          THEN /\ UNCHANGED organizers
               /\ h' = [h EXCEPT ![p].pc = "done",
                                 ![p].calls = @ \cup {"insert", "unique_violation"},
                                 ![p].sent = @ + 1,
                                 ![p].resp = InternalServerError(
                                     "duplicate key value violates unique constraint")]
          ELSE LET row == NewOrganizer(h[p].body, h[p].hash) IN
               /\ organizers' = Append(organizers, row)
               /\ IF AdminConfigured
                  THEN h' = [h EXCEPT ![p].pc = "mail", ![p].calls = @ \cup {"insert"},
                                      ![p].user = row,
                                      ![p].resp = ResponseBeforeMail(row)]
                  ELSE h' = [h EXCEPT ![p].pc = "done",
                                      ![p].calls = @ \cup {"insert", "warn"},
                                      ![p].user = row,
                                      ![p].sent = @ + 1,
                                      ![p].resp = [Json(201, "Registration request sent for admin approval.")
                                                   EXCEPT !.organizer = Returning(row)]]

\* await sendApprovalEmail(ADMIN_EMAIL, { organizer_name, email }, approvalLink)
RegisterMail(p) ==
    /\ h[p].pc = "mail"
    /\ UNCHANGED <<organizers, requests, approvedMails, commits, ADMIN_EMAIL, buildingVars, eventVars>>
    /\ \/ /\ UNCHANGED adminMails
          /\ h' = [h EXCEPT ![p].pc = "done", ![p].calls = @ \cup {"mail", "mail_failed"},
                            ![p].sent = @ + 1,
                            ![p].resp = InternalServerError("sendMail failed")]
       \/ /\ adminMails' = adminMails (+) SetToBag(
                 {[organizer_name |-> h[p].body.fname \o " " \o h[p].body.lname,
                   email          |-> h[p].body.email,
                   approvalLink   |-> Property(h[p].user, "organizer_id")]})
          /\ h' = [h EXCEPT ![p].pc = "done", ![p].calls = @ \cup {"mail"},
                            ![p].sent = @ + 1,
                            ![p].resp = [Json(201, "Registration request sent for admin approval.")
                                         EXCEPT !.organizer = Returning(h[p].user)]]

\* ---------------------------------------------------------------- login
ReceiveLogin(p) ==
    \E body \in LoginBodies : Receive(p, "login", body)

\* !email || !password
CredentialsMissing(body) == body.email = "" \/ body.password = ""

\* the status gate dropped
NotApproved_Never(user) == FALSE

\* user.status !== 'approved'
NotApproved(user) == user.status # "approved"

\* the response when userResult.rows.length === 0
UnknownEmailResponse == Json(401, "Invalid email (username) or password")

\* a response that tells the caller which part of the credential was wrong
WrongPasswordResponse_Specific == Json(401, "Invalid password")

\* the response when !isPasswordValid
WrongPasswordResponse == Json(401, "Invalid email (username) or password")

\* jwt.sign({ id: user.organizer_ID, username: user.email }, secret, { expiresIn: '1h' })
JwtSign(user) ==
    [id |-> Property(user, "organizer_ID"), username |-> user.email, expiresIn |-> "1h"]

\* login after the SELECT returned the row user: the status check, bcrypt.compare,
\* jwt.sign and the response (none reads or writes what another handler sees)
LoginUser(p, user) ==
    IF NotApproved(user)
    THEN h' = [h EXCEPT ![p].pc = "done", ![p].calls = {"select"}, ![p].user = user,
                        ![p].sent = @ + 1,
                        ![p].resp = Json(403, "Account not approved by admin yet.")]
    ELSE \/ h' = [h EXCEPT ![p].pc = "done", ![p].user = user,
                           ![p].calls = {"select", "compare", "compare_failed"},
                           ![p].sent = @ + 1,
                           ![p].resp = InternalServerError("compare failed")]
         \/ /\ ~BcryptCompare(h[p].body.password, user.password_hash)
            /\ h' = [h EXCEPT ![p].pc = "done", ![p].user = user,
                              ![p].calls = {"select", "compare"},
                              ![p].sent = @ + 1,
                              ![p].resp = WrongPasswordResponse]
         \/ /\ BcryptCompare(h[p].body.password, user.password_hash)
            /\ h' = [h EXCEPT ![p].pc = "done", ![p].user = user,
                              ![p].calls = {"select", "compare", "sign", "sign_failed"},
                              ![p].sent = @ + 1,
                              ![p].resp = InternalServerError(
                                  "secretOrPrivateKey must have a value")]
         \/ /\ BcryptCompare(h[p].body.password, user.password_hash)
            /\ h' = [h EXCEPT ![p].pc = "done", ![p].user = user,
                              ![p].calls = {"select", "compare", "sign"},
                              ![p].sent = @ + 1,
                              ![p].resp = [Json(200, "Login successful")
                                           EXCEPT !.token = JwtSign(user)]]

\* login: the validation, the SELECT and what follows it
Login(p) ==
    /\ h[p].pc = "received" /\ h[p].op = "login"
    /\ UNCHANGED <<organizers, requests, adminMails, approvedMails, commits, ADMIN_EMAIL,
                   buildingVars, eventVars>>
    /\ IF CredentialsMissing(h[p].body)
       THEN Finish(p, Json(400, "Email (username) and Password are required"))
       ELSE \/ h' = [h EXCEPT ![p].pc = "done", ![p].calls = {"select", "select_failed"},
                              ![p].sent = @ + 1,
                              ![p].resp = InternalServerError("select failed")]
            \/ /\ SelectByEmail(h[p].body.email) = {}
               /\ h' = [h EXCEPT ![p].pc = "done", ![p].calls = {"select"},
                                 ![p].sent = @ + 1,
                                 ![p].resp = UnknownEmailResponse]
            \/ /\ SelectByEmail(h[p].body.email) # {}
               /\ LoginUser(p, FirstRow(SelectByEmail(h[p].body.email)))

\* ---------------------------------------------------------------- approveOrganizer
ReceiveApprove(p) ==
    \E id \in OrganizerIds :
        Receive(p, "approve", [NoBody EXCEPT !.organizerId = id])

\* findById(id) -> Organizer?
FindById(id) == IF id \in DOMAIN organizers THEN organizers[id] ELSE NoRow

\* the record's status is already approved
AlreadyApproved(row) == row.status = "approved"

\* an update that does not look at the current status
StatusConflict_Unconditional(id, fromStatus) == FALSE

\* updateStatus(id, fromStatus, toStatus) fails with conflict if current status # fromStatus
StatusConflict(id, fromStatus) == organizers[id].status # fromStatus

\* an approval that silently accepts an approved record
AlreadyApprovedResponse_Idempotent == Json(200, "Organizer approved successfully")

\* ConflictError ("already approved")
AlreadyApprovedResponse == Json(400, "Organizer already approved")

\* an approval that reports success for an identifier without a record
NotFoundResponse_Ok == Json(200, "Organizer approved successfully")

\* NotFoundError
NotFoundResponse == Json(404, "Organizer not found")

\* approveOrganizer, from its entry to the completion of findById
ApproveFind(p) ==
    /\ h[p].pc = "received" /\ h[p].op = "approve"
    /\ UNCHANGED <<organizers, requests, adminMails, approvedMails, commits, ADMIN_EMAIL,
                   buildingVars, eventVars>>
    /\ \/ h' = [h EXCEPT ![p].pc = "done", ![p].calls = {"find", "find_failed"},
                         ![p].sent = @ + 1,
                         ![p].resp = InternalServerError("find failed")]
       \/ LET row == FindById(h[p].body.organizerId) IN
          IF row = NoRow
          THEN h' = [h EXCEPT ![p].pc = "done", ![p].calls = {"find"},
                              ![p].sent = @ + 1,
                              ![p].resp = NotFoundResponse]
          ELSE IF AlreadyApproved(row)
          THEN h' = [h EXCEPT ![p].pc = "done", ![p].calls = {"find"}, ![p].user = row,
                              ![p].sent = @ + 1,
                              ![p].resp = AlreadyApprovedResponse]
          ELSE h' = [h EXCEPT ![p].pc = "update", ![p].calls = {"find"}, ![p].user = row]

\* updateStatus(id, pending, approved): the check and the write are one step
ApproveUpdate(p) ==
    /\ h[p].pc = "update"
    /\ UNCHANGED <<requests, adminMails, approvedMails, ADMIN_EMAIL, buildingVars, eventVars>>
    /\ LET id == h[p].body.organizerId IN
       \/ /\ UNCHANGED <<organizers, commits>>
          /\ h' = [h EXCEPT ![p].pc = "done", ![p].calls = @ \cup {"update", "update_failed"},
                            ![p].sent = @ + 1,
                            ![p].resp = InternalServerError("update failed")]
       \/ IF StatusConflict(id, "pending")
          THEN /\ UNCHANGED <<organizers, commits>>
               /\ h' = [h EXCEPT ![p].pc = "done", ![p].calls = @ \cup {"update", "conflict"},
                                 ![p].sent = @ + 1,
                                 ![p].resp = AlreadyApprovedResponse]
          ELSE /\ organizers' = [organizers EXCEPT ![id].status = "approved"]
               /\ commits' = [commits EXCEPT ![id] = @ + 1]
               /\ h' = [h EXCEPT ![p].pc = "notify", ![p].calls = @ \cup {"update"},
                                 ![p].user = organizers'[id]]

\* a notifier failure that is swallowed
NotifierFailedResponse_Swallowed == Json(200, "Organizer approved successfully")

\* the notifier's failure is the failure of the whole approval
NotifierFailedResponse == InternalServerError("sendMail failed")

\* notifyOrganizerApproved(organizerSummary), then the response
ApproveNotify(p) ==
    /\ h[p].pc = "notify"
    /\ UNCHANGED <<organizers, requests, adminMails, commits, ADMIN_EMAIL, buildingVars, eventVars>>
    /\ LET id == h[p].body.organizerId IN
       \/ /\ UNCHANGED approvedMails
          /\ h' = [h EXCEPT ![p].pc = "done", ![p].calls = @ \cup {"notify", "notify_failed"},
                            ![p].sent = @ + 1,
                            ![p].resp = NotifierFailedResponse]
       \/ /\ approvedMails' = [approvedMails EXCEPT ![id] = @ + 1]
          /\ h' = [h EXCEPT ![p].pc = "done", ![p].calls = @ \cup {"notify"},
                            ![p].sent = @ + 1,
                            ![p].resp = [Json(200, "Organizer approved successfully")
                                         EXCEPT !.organizer = Returning(h[p].user)]]

\* An organizer registered and approved before the first request of the behaviour.
Approved1 ==
    [organizer_ID |-> 1, organizer_name |-> "John Doe", fname |-> "John", lname |-> "Doe",
     email |-> "a@mail.com", password_hash |-> BcryptHash("pass"), status |-> "approved"]

\* The table is empty, or holds what one registration and its approval left.
Init ==
    /\ ADMIN_EMAIL \in BOOLEAN
    /\ h = [p \in Handlers |-> Idle]
    /\ requests = 0
    /\ buildings = <<>>
    /\ bh = [p \in Handlers |-> BuildingIdle]
    /\ events = <<>>
    /\ eh = [p \in Handlers |-> EventIdle]
    /\ \/ /\ organizers = <<>>
          /\ adminMails = EmptyBag
          /\ approvedMails = [i \in OrganizerIds |-> 0]
          /\ commits = [i \in OrganizerIds |-> 0]
       \/ /\ organizers = <<Approved1>>
          /\ adminMails = IF ADMIN_EMAIL
                          THEN SetToBag({[organizer_name |-> "John Doe",
                                          email |-> "a@mail.com", approvalLink |-> 1]})
                          ELSE EmptyBag
          /\ approvedMails = [i \in OrganizerIds |-> IF i = 1 THEN 1 ELSE 0]
          /\ commits = [i \in OrganizerIds |-> IF i = 1 THEN 1 ELSE 0]

Next ==
    \E p \in Handlers :
        \/ ReceiveRegister(p)
        \/ RegisterSelect(p)
        \/ RegisterInsert(p)
        \/ RegisterMail(p)
        \/ ReceiveLogin(p)
        \/ Login(p)
        \/ ReceiveApprove(p)
        \/ ApproveFind(p)
        \/ ApproveUpdate(p)
        \/ ApproveNotify(p)

Spec == Init /\ [][Next]_vars

\* A query of the pool or a send of the mail transport that never settles: the
\* handler stays at its await. register and login set no timer and pass no
\* deadline to the pool or the transport, so nothing takes them out of it.
NeverReturns(p) ==
    /\ \/ /\ h[p].pc = "received" /\ h[p].op = "register"
          /\ ~RequiredFieldsMissing(h[p].body)
       \/ /\ h[p].pc = "received" /\ h[p].op = "login"
          /\ ~CredentialsMissing(h[p].body)
       \/ h[p].pc \in {"insert", "mail"}
    /\ h' = [h EXCEPT ![p].pc = "await", ![p].calls = @ \cup {"pending"}]
    /\ UNCHANGED <<organizers, requests, adminMails, approvedMails, commits, ADMIN_EMAIL,
                   buildingVars, eventVars>>

LiveNext ==
    \/ Next
    \/ \E p \in Handlers : NeverReturns(p)

\* The event loop runs every continuation whose promise has settled: a step
\* that is possible is eventually taken.
LiveSpec == Init /\ [][LiveNext]_vars /\ WF_vars(LiveNext)

\* ================================================================ directory
\* The registration of the auth service next to the organizer management
\* endpoints (getOrganizers, getOrganizerById, deleteOrganizer), whose
\* statements and responses are those their unit tests assert.

\* an email with no '@'
MalformedEmail == "invalid-email"

\* req.params.id
DirectoryIds == 1..3

\* req.body of POST /register with every required field present
DirectoryBodies ==
    {[NoBody EXCEPT !.fname = "John", !.lname = "Doe", !.email = e, !.password = "pass"] :
        e \in {"b@mail.com", MalformedEmail}}

ReceiveDirectoryRegister(p) ==
    \E body \in DirectoryBodies : Receive(p, "register", body)

\* res.status(500).json({ message: 'Database error', ... })
DatabaseError == Json(500, "Database error")

\* a row that DELETE removed: its organizer_ID is never given to another row
Deleted(row) == row.status = "none"

\* a list that shows every organizer, whatever its status
IsApproved_Any(row) == ~Deleted(row)

\* WHERE status = 'approved'
IsApproved(row) == row.status = "approved"

\* SELECT organizer_ID, organizer_name, Fname, Lname, email, contact_no
ListedColumns(row) == [row EXCEPT !.password_hash = <<>>, !.status = "none"]

\* ... FROM Organizer WHERE status = 'approved' ORDER BY organizer_ID
RECURSIVE SelectApproved(_)
SelectApproved(table) ==
    IF table = <<>>
    THEN <<>>
    ELSE LET rest == SelectApproved(SubSeq(table, 1, Len(table) - 1))
             last == table[Len(table)]
         IN  IF IsApproved(last) THEN Append(rest, ListedColumns(last)) ELSE rest

\* ... FROM Organizer WHERE organizer_ID = $1 AND status = 'approved'
SelectApprovedById(id) ==
    {ListedColumns(organizers[i]) :
        i \in {j \in DOMAIN organizers : j = id /\ IsApproved(organizers[j])}}

ReceiveGetOrganizers(p) == Receive(p, "getOrganizers", NoBody)

\* getOrganizers: the query, then res.json(result.rows)
GetOrganizers(p) ==
    /\ h[p].pc = "received" /\ h[p].op = "getOrganizers"
    /\ UNCHANGED <<organizers, requests, adminMails, approvedMails, commits, ADMIN_EMAIL,
                   buildingVars, eventVars>>
    /\ \/ h' = [h EXCEPT ![p].pc = "done", ![p].calls = {"select", "select_failed"},
                         ![p].sent = @ + 1,
                         ![p].resp = DatabaseError]
       \/ h' = [h EXCEPT ![p].pc = "done", ![p].calls = {"select"},
                         ![p].sent = @ + 1,
                         ![p].resp = [NoResponse EXCEPT !.status = 200,
                                                        !.rows = SelectApproved(organizers)]]

ReceiveGetOrganizerById(p) ==
    \E id \in DirectoryIds :
        Receive(p, "getOrganizerById", [NoBody EXCEPT !.organizerId = id])

\* getOrganizerById: the query, then 404 or res.json(result.rows[0])
GetOrganizerById(p) ==
    /\ h[p].pc = "received" /\ h[p].op = "getOrganizerById"
    /\ UNCHANGED <<organizers, requests, adminMails, approvedMails, commits, ADMIN_EMAIL,
                   buildingVars, eventVars>>
    /\ LET rows == SelectApprovedById(h[p].body.organizerId) IN
       \/ h' = [h EXCEPT ![p].pc = "done", ![p].calls = {"select", "select_failed"},
                         ![p].sent = @ + 1,
                         ![p].resp = DatabaseError]
       \/ /\ rows = {}
          /\ h' = [h EXCEPT ![p].pc = "done", ![p].calls = {"select"},
                            ![p].sent = @ + 1,
                            ![p].resp = Json(404, "Approved organizer not found")]
       \/ /\ rows # {}
          /\ h' = [h EXCEPT ![p].pc = "done", ![p].calls = {"select"},
                            ![p].sent = @ + 1,
                            ![p].resp = [NoResponse EXCEPT !.status = 200,
                                                           !.organizer = FirstRow(rows)]]

\* the DELETE finds a row with this organizer_ID
RowExists(id) == id \in DOMAIN organizers /\ ~Deleted(organizers[id])

ReceiveDeleteOrganizer(p) ==
    \E id \in DirectoryIds :
        Receive(p, "deleteOrganizer", [NoBody EXCEPT !.organizerId = id])

\* deleteOrganizer: DELETE FROM Organizer WHERE organizer_ID = $1 RETURNING *,
\* then 404 or res.json({ message: 'Organizer deleted', organizer: result.rows[0] })
DeleteOrganizer(p) ==
    /\ h[p].pc = "received" /\ h[p].op = "deleteOrganizer"
    /\ UNCHANGED <<requests, adminMails, approvedMails, commits, ADMIN_EMAIL, buildingVars, eventVars>>
    /\ LET id == h[p].body.organizerId IN
       \/ /\ UNCHANGED organizers
          /\ h' = [h EXCEPT ![p].pc = "done", ![p].calls = {"delete", "delete_failed"},
                            ![p].sent = @ + 1,
                            ![p].resp = DatabaseError]
       \/ /\ ~RowExists(id)
          /\ UNCHANGED organizers
          /\ h' = [h EXCEPT ![p].pc = "done", ![p].calls = {"delete"},
                            ![p].sent = @ + 1,
                            ![p].resp = Json(404, "Organizer not found")]
       \/ /\ RowExists(id)
          /\ organizers' = [organizers EXCEPT ![id] = NoRow]
          /\ h' = [h EXCEPT ![p].pc = "done", ![p].calls = {"delete"},
                            ![p].sent = @ + 1,
                            ![p].resp = [Json(200, "Organizer deleted")
                                         EXCEPT !.organizer = organizers[id]]]

DirectoryNext ==
    \E p \in Handlers :
        \/ ReceiveDirectoryRegister(p)
        \/ RegisterSelect(p)
        \/ RegisterInsert(p)
        \/ RegisterMail(p)
        \/ ReceiveGetOrganizers(p)
        \/ GetOrganizers(p)
        \/ ReceiveGetOrganizerById(p)
        \/ GetOrganizerById(p)
        \/ ReceiveDeleteOrganizer(p)
        \/ DeleteOrganizer(p)

DirectorySpec == Init /\ [][DirectoryNext]_vars

\* ================================================================ building
\* createBuilding and updateBuilding of the building service.

BuildingNames == {"Library", "Lab"}
ZoneIds       == {1}
BuildingIds   == 1..2          \* req.params.id

\* req.body of POST /buildings: zone_id or building_name may be missing
CreateBodies ==
    {[NoBuilding EXCEPT !.zone_id = z, !.building_name = n] :
        z \in ZoneIds \cup {0}, n \in BuildingNames \cup {""}}

\* req.body of PUT /buildings/:id: every field is optional
UpdateBodies ==
    {[NoBuilding EXCEPT !.zone_id = z, !.building_name = n] :
        z \in ZoneIds \cup {0}, n \in BuildingNames \cup {""}}

\* res.status(s).json({ message: m })
BuildingJson(s, m) == [NoBuildingResponse EXCEPT !.status = s, !.message = m]

\* catch (err): res.status(500).json({ message: 'Database error', error: err.message })
UniqueViolationResponse(detail) ==
    [NoBuildingResponse EXCEPT !.status = 500, !.message = "Database error",
                               !.error = detail]

\* the unique index building_name_unique: another row has this name (error 23505)
NameTaken(name, id) ==
    \E i \in DOMAIN buildings : i # id /\ buildings[i].building_name = name

\* WHERE building_id = $n matches a row; a row that DELETE removed leaves its
\* building_id unused
BuildingExists(id) == id \in DOMAIN buildings /\ buildings[id] # NoBuilding

\* COALESCE($n, column)
Coalesce(value, column, null) == IF value = null THEN column ELSE value

ReceiveBuilding(p, op, id, body) ==
    /\ bh[p].pc \in {"idle", "done"}
    /\ p = "h2" => bh["h1"].pc \notin {"idle", "done"}
    /\ requests < MaxRequests
    /\ requests' = requests + 1
    /\ bh' = [bh EXCEPT ![p] = [BuildingIdle EXCEPT !.pc = "received", !.op = op,
                                                    !.id = id, !.body = body]]
    /\ UNCHANGED <<organizers, h, adminMails, approvedMails, commits, ADMIN_EMAIL,
                   buildings,
                   eventVars>>

ReceiveCreateBuilding(p) ==
    \E body \in CreateBodies : ReceiveBuilding(p, "createBuilding", 0, body)

ReceiveUpdateBuilding(p) ==
    \E id \in BuildingIds, body \in UpdateBodies :
        ReceiveBuilding(p, "updateBuilding", id, body)

\* createBuilding: the validation, the INSERT and the response
CreateBuilding(p) ==
    /\ bh[p].pc = "received" /\ bh[p].op = "createBuilding"
    /\ UNCHANGED <<organizers, h, requests, adminMails, approvedMails, commits, ADMIN_EMAIL,
                   eventVars>>
    /\ IF bh[p].body.zone_id = 0 \/ bh[p].body.building_name = ""
       THEN /\ UNCHANGED buildings
            /\ bh' = [bh EXCEPT ![p].pc = "done",
                                ![p].sent = @ + 1,
                                ![p].resp = BuildingJson(400, "zone_id and building_name are required")]
       ELSE \/ /\ UNCHANGED buildings
               /\ bh' = [bh EXCEPT ![p].pc = "done", ![p].calls = {"insert", "insert_failed"},
                                   ![p].sent = @ + 1,
                                   ![p].resp = [NoBuildingResponse EXCEPT
                                                   !.status = 500, !.message = "Database error",
                                                   !.error = "connection refused"]]
            \/ IF NameTaken(bh[p].body.building_name, 0)
               THEN /\ UNCHANGED buildings
                    /\ bh' = [bh EXCEPT ![p].pc = "done",
                                        ![p].calls = {"insert", "unique_violation"},
                                        ![p].sent = @ + 1,
                                        ![p].resp = UniqueViolationResponse(
                                            "duplicate key value violates unique constraint")]
               ELSE LET row == [bh[p].body EXCEPT !.building_id = Len(buildings) + 1] IN
                    /\ buildings' = Append(buildings, row)
                    /\ bh' = [bh EXCEPT ![p].pc = "done", ![p].calls = {"insert"},
                                        ![p].sent = @ + 1,
                                        ![p].resp = [BuildingJson(201, "Building created successfully")
                                                     EXCEPT !.building = row]]

\* updateBuilding: the UPDATE and the response
UpdateBuilding(p) ==
    /\ bh[p].pc = "received" /\ bh[p].op = "updateBuilding"
    /\ UNCHANGED <<organizers, h, requests, adminMails, approvedMails, commits, ADMIN_EMAIL,
                   eventVars>>
    /\ \/ /\ UNCHANGED buildings
          /\ bh' = [bh EXCEPT ![p].pc = "done", ![p].calls = {"update", "update_failed"},
                              ![p].sent = @ + 1,
                              ![p].resp = [NoBuildingResponse EXCEPT
                                              !.status = 500, !.message = "Database error",
                                              !.error = "connection refused"]]
       \/ IF ~BuildingExists(bh[p].id)
          THEN /\ UNCHANGED buildings
               /\ bh' = [bh EXCEPT ![p].pc = "done", ![p].calls = {"update"},
                                   ![p].sent = @ + 1,
                                   ![p].resp = BuildingJson(404, "Building not found")]
          ELSE LET old == buildings[bh[p].id]
                   row == [old EXCEPT
                             !.zone_id = Coalesce(bh[p].body.zone_id, old.zone_id, 0),
                             !.building_name =
                                 Coalesce(bh[p].body.building_name, old.building_name, ""),
                             !.description =
                                 Coalesce(bh[p].body.description, old.description, "")]
               IN  IF NameTaken(row.building_name, bh[p].id)
                   THEN /\ UNCHANGED buildings
                        /\ bh' = [bh EXCEPT ![p].pc = "done",
                                            ![p].calls = {"update", "unique_violation"},
                                            ![p].sent = @ + 1,
                                            ![p].resp = UniqueViolationResponse(
                                                "duplicate key value violates unique constraint")]
                   ELSE /\ buildings' = [buildings EXCEPT ![bh[p].id] = row]
                        /\ bh' = [bh EXCEPT ![p].pc = "done", ![p].calls = {"update"},
                                            ![p].sent = @ + 1,
                                            ![p].resp = [BuildingJson(200, "Building updated successfully")
                                                         EXCEPT !.building = row]]

BuildingNext ==
    \E p \in Handlers :
        \/ ReceiveCreateBuilding(p)
        \/ CreateBuilding(p)
        \/ ReceiveUpdateBuilding(p)
        \/ UpdateBuilding(p)

BuildingSpec == Init /\ [][BuildingNext]_vars

\* ================================================================ event
\* The handlers of the event service (eventController.js).

\* req.body.start_time / end_time: date-time texts of the requests
Morning      == "2025-09-20 10:00:00"
Evening      == "2025-09-20 18:00:00"
EarlyMorning == "2025-09-20 9:00:00"       \* the hour written with one digit
BadMorning   == "2025-13-40 10:00:00"      \* month 13, day 40
BadEvening   == "2025-13-40 18:00:00"

\* the UTF-16 code units of a text
CodeUnits(text) ==
    CASE text = Morning      -> <<50, 48, 50, 53, 45, 48, 57, 45, 50, 48, 32, 49, 48, 58, 48, 48, 58, 48, 48>>
      [] text = Evening      -> <<50, 48, 50, 53, 45, 48, 57, 45, 50, 48, 32, 49, 56, 58, 48, 48, 58, 48, 48>>
      [] text = EarlyMorning -> <<50, 48, 50, 53, 45, 48, 57, 45, 50, 48, 32, 57, 58, 48, 48, 58, 48, 48>>
      [] text = BadMorning   -> <<50, 48, 50, 53, 45, 49, 51, 45, 52, 48, 32, 49, 48, 58, 48, 48, 58, 48, 48>>
      [] text = BadEvening   -> <<50, 48, 50, 53, 45, 49, 51, 45, 52, 48, 32, 49, 56, 58, 48, 48, 58, 48, 48>>
      [] text = ""           -> <<>>

\* a <= b of two sequences of code units, as JavaScript orders strings
RECURSIVE UnitsLessEq(_, _)
UnitsLessEq(a, b) ==
    IF a = <<>> THEN TRUE
    ELSE IF b = <<>> THEN FALSE
    ELSE IF Head(a) # Head(b) THEN Head(a) < Head(b)
    ELSE UnitsLessEq(Tail(a), Tail(b))

\* end_time <= start_time of two strings
EndNotLater(end_time, start_time) ==
    UnitsLessEq(CodeUnits(end_time), CodeUnits(start_time))

\* the fields of a date-time text 'YYYY-MM-DD H[H]:MM:SS' as PostgreSQL reads it
Month(text) == LET u == CodeUnits(text) IN (u[6] - 48) * 10 + (u[7] - 48)
Day(text)   == LET u == CodeUnits(text) IN (u[9] - 48) * 10 + (u[10] - 48)
Hour(text)  ==
    LET u == CodeUnits(text) IN
    IF u[13] = 58 THEN u[12] - 48 ELSE (u[12] - 48) * 10 + (u[13] - 48)

\* PostgreSQL accepts the text as a timestamp
ValidTimestamp(text) ==
    Month(text) \in 1..12 /\ Day(text) \in 1..31 /\ Hour(text) \in 0..23

\* the instant of a valid timestamp, in hours from the start of its year (the
\* texts of the requests have the same year and no minutes)
Instant(text) == (Month(text) * 31 + Day(text)) * 24 + Hour(text)

EventIds == 1..2          \* req.params.id

\* req.body of POST /events
CreateEventBodies ==
    LET b == [NoEvent EXCEPT !.event_name = "Hackathon", !.start_time = Morning,
                             !.end_time = Evening]
    IN  {b,
         [b EXCEPT !.start_time = Evening, !.end_time = Morning],
         [b EXCEPT !.end_time = Morning],
         [b EXCEPT !.end_time = EarlyMorning],
         [b EXCEPT !.start_time = BadMorning, !.end_time = BadEvening],
         [b EXCEPT !.start_time = ""],
         [b EXCEPT !.event_name = ""]}

\* req.body of PUT /events/:id: every field is optional
UpdateEventBodies ==
    {[NoEvent EXCEPT !.description = "Updated description only"],
     [NoEvent EXCEPT !.event_name = "Updated Event", !.organizer_id = 1],
     [NoEvent EXCEPT !.start_time = Evening, !.end_time = Morning],
     [NoEvent EXCEPT !.start_time = Evening],
     [NoEvent EXCEPT !.end_time = BadEvening],
     NoEvent}

\* res.status(s).json({ message: m })
EventJson(s, m) == [NoEventResponse EXCEPT !.status = s, !.message = m]

\* catch (err): res.status(500).json({ message: 'Database error', error: err.message })
EventDatabaseError(detail) ==
    [NoEventResponse EXCEPT !.status = 500, !.message = "Database error", !.error = detail]

\* a row that DELETE removed: its event_id is never given to another row
EventExists(id) == id \in DOMAIN events /\ events[id] # NoEvent

\* an UPDATE that writes the request's fields as they are
UpdatedEvent_Overwrite(old, body) == [body EXCEPT !.event_id = old.event_id]

\* SET column = COALESCE($n, column), with $n = field || null
UpdatedEvent(old, body) ==
    [event_id       |-> old.event_id,
     event_name     |-> Coalesce(body.event_name, old.event_name, ""),
     start_time     |-> Coalesce(body.start_time, old.start_time, ""),
     end_time       |-> Coalesce(body.end_time, old.end_time, ""),
     location       |-> Coalesce(body.location, old.location, ""),
     description    |-> Coalesce(body.description, old.description, ""),
     media_urls     |-> Coalesce(body.media_urls, old.media_urls, ""),
     event_category |-> Coalesce(body.event_category, old.event_category, ""),
     organizer_id   |-> Coalesce(body.organizer_id, old.organizer_id, 0)]

\* the rows of the table in the order of start_time
RECURSIVE OrderByStartTime(_)
OrderByStartTime(rows) ==
    IF rows = {} THEN <<>>
    ELSE LET first == CHOOSE r \in rows :
                          \A q \in rows :
                              \/ Instant(r.start_time) < Instant(q.start_time)
                              \/ /\ Instant(r.start_time) = Instant(q.start_time)
                                 /\ r.event_id <= q.event_id
         IN  <<first>> \o OrderByStartTime(rows \ {first})

ReceiveEvent(p, op, id, body) ==
    /\ eh[p].pc \in {"idle", "done"}
    /\ p = "h2" => eh["h1"].pc \notin {"idle", "done"}
    /\ requests < MaxRequests
    /\ requests' = requests + 1
    /\ eh' = [eh EXCEPT ![p] = [EventIdle EXCEPT !.pc = "received", !.op = op,
                                                 !.id = id, !.body = body]]
    /\ UNCHANGED <<organizers, h, adminMails, approvedMails, commits, ADMIN_EMAIL,
                   buildingVars, events>>

ReceiveGetEvents(p) == ReceiveEvent(p, "getEvents", 0, NoEvent)

ReceiveGetEventById(p) == \E id \in EventIds : ReceiveEvent(p, "getEventById", id, NoEvent)

ReceiveCreateEvent(p) ==
    \E body \in CreateEventBodies : ReceiveEvent(p, "createEvent", 0, body)

ReceiveUpdateEvent(p) ==
    \E id \in EventIds, body \in UpdateEventBodies :
        ReceiveEvent(p, "updateEvent", id, body)

ReceiveDeleteEvent(p) == \E id \in EventIds : ReceiveEvent(p, "deleteEvent", id, NoEvent)

\* getEvents: the SELECT and the response
GetEvents(p) ==
    /\ eh[p].pc = "received" /\ eh[p].op = "getEvents"
    /\ UNCHANGED <<organizers, h, requests, adminMails, approvedMails, commits, ADMIN_EMAIL,
                   buildingVars, events>>
    /\ \/ eh' = [eh EXCEPT ![p].pc = "done", ![p].calls = {"select", "select_failed"},
                           ![p].sent = @ + 1,
                           ![p].resp = EventDatabaseError("connection refused")]
       \/ eh' = [eh EXCEPT ![p].pc = "done", ![p].calls = {"select"},
                           ![p].sent = @ + 1,
                           ![p].resp = [NoEventResponse EXCEPT
                               !.status = 200,
                               !.rows = OrderByStartTime(
                                   {events[i] : i \in {j \in DOMAIN events : EventExists(j)}})]]

\* getEventById: the SELECT, then 404 or the row
GetEventById(p) ==
    /\ eh[p].pc = "received" /\ eh[p].op = "getEventById"
    /\ UNCHANGED <<organizers, h, requests, adminMails, approvedMails, commits, ADMIN_EMAIL,
                   buildingVars, events>>
    /\ \/ eh' = [eh EXCEPT ![p].pc = "done", ![p].calls = {"select", "select_failed"},
                           ![p].sent = @ + 1,
                           ![p].resp = EventDatabaseError("connection refused")]
       \/ IF EventExists(eh[p].id)
          THEN eh' = [eh EXCEPT ![p].pc = "done", ![p].calls = {"select"},
                                ![p].sent = @ + 1,
                                ![p].resp = [NoEventResponse EXCEPT
                                                !.status = 200, !.event = events[eh[p].id]]]
          ELSE eh' = [eh EXCEPT ![p].pc = "done", ![p].calls = {"select"},
                                ![p].sent = @ + 1,
                                ![p].resp = EventJson(404, "Event not found")]

\* createEvent: the two validations, the INSERT and the response
CreateEvent(p) ==
    /\ eh[p].pc = "received" /\ eh[p].op = "createEvent"
    /\ UNCHANGED <<organizers, h, requests, adminMails, approvedMails, commits, ADMIN_EMAIL,
                   buildingVars>>
    /\ LET body == eh[p].body IN
       IF body.event_name = "" \/ body.start_time = "" \/ body.end_time = ""
       THEN /\ UNCHANGED events
            /\ eh' = [eh EXCEPT ![p].pc = "done",
                                ![p].sent = @ + 1,
                                ![p].resp = EventJson(
                                    400, "event_name, start_time, and end_time are required")]
       ELSE IF EndNotLater(body.end_time, body.start_time)
       THEN /\ UNCHANGED events
            /\ eh' = [eh EXCEPT ![p].pc = "done",
                                ![p].sent = @ + 1,
                                ![p].resp = EventJson(
                                    400, "End time must be later than start time")]
       ELSE \/ /\ UNCHANGED events
               /\ eh' = [eh EXCEPT ![p].pc = "done", ![p].calls = {"insert", "insert_failed"},
                                   ![p].sent = @ + 1,
                                   ![p].resp = EventDatabaseError("connection refused")]
            \/ IF ~ValidTimestamp(body.start_time) \/ ~ValidTimestamp(body.end_time)
               THEN /\ UNCHANGED events
                    /\ eh' = [eh EXCEPT ![p].pc = "done",
                                        ![p].calls = {"insert", "out_of_range"},
                                        ![p].sent = @ + 1,
                                        ![p].resp = EventDatabaseError(
                                            "date/time field value out of range")]
               ELSE LET row == [body EXCEPT !.event_id = Len(events) + 1] IN
                    /\ events' = Append(events, row)
                    /\ eh' = [eh EXCEPT ![p].pc = "done", ![p].calls = {"insert"},
                                        ![p].sent = @ + 1,
                                        ![p].resp = [EventJson(201, "Event created successfully")
                                                     EXCEPT !.event = row]]

\* updateEvent: the validation, the UPDATE and the response
UpdateEvent(p) ==
    /\ eh[p].pc = "received" /\ eh[p].op = "updateEvent"
    /\ UNCHANGED <<organizers, h, requests, adminMails, approvedMails, commits, ADMIN_EMAIL,
                   buildingVars>>
    /\ LET body == eh[p].body IN
       IF /\ body.start_time # "" /\ body.end_time # ""
          /\ EndNotLater(body.end_time, body.start_time)
       THEN /\ UNCHANGED events
            /\ eh' = [eh EXCEPT ![p].pc = "done",
                                ![p].sent = @ + 1,
                                ![p].resp = EventJson(
                                    400, "End time must be later than start time")]
       ELSE \/ /\ UNCHANGED events
               /\ eh' = [eh EXCEPT ![p].pc = "done", ![p].calls = {"update", "update_failed"},
                                   ![p].sent = @ + 1,
                                   ![p].resp = EventDatabaseError("connection refused")]
            \/ IF \/ (body.start_time # "" /\ ~ValidTimestamp(body.start_time))
                  \/ (body.end_time # "" /\ ~ValidTimestamp(body.end_time))
               THEN /\ UNCHANGED events
                    /\ eh' = [eh EXCEPT ![p].pc = "done",
                                        ![p].calls = {"update", "out_of_range"},
                                        ![p].sent = @ + 1,
                                        ![p].resp = EventDatabaseError(
                                            "date/time field value out of range")]
               ELSE IF ~EventExists(eh[p].id)
               THEN /\ UNCHANGED events
                    /\ eh' = [eh EXCEPT ![p].pc = "done", ![p].calls = {"update"},
                                        ![p].sent = @ + 1,
                                        ![p].resp = EventJson(404, "Event not found")]
               ELSE LET row == UpdatedEvent(events[eh[p].id], body) IN
                    /\ events' = [events EXCEPT ![eh[p].id] = row]
                    /\ eh' = [eh EXCEPT ![p].pc = "done", ![p].calls = {"update"},
                                        ![p].sent = @ + 1,
                                        ![p].resp = [EventJson(200, "Event updated successfully")
                                                     EXCEPT !.event = row]]

\* RETURNING event_id, event_name, start_time, end_time, location
DeletedColumns(row) ==
    [NoEvent EXCEPT !.event_id = row.event_id, !.event_name = row.event_name,
                    !.start_time = row.start_time, !.end_time = row.end_time,
                    !.location = row.location]

\* deleteEvent: the DELETE, then 404 or the deleted row
DeleteEvent(p) ==
    /\ eh[p].pc = "received" /\ eh[p].op = "deleteEvent"
    /\ UNCHANGED <<organizers, h, requests, adminMails, approvedMails, commits, ADMIN_EMAIL,
                   buildingVars>>
    /\ \/ /\ UNCHANGED events
          /\ eh' = [eh EXCEPT ![p].pc = "done", ![p].calls = {"delete", "delete_failed"},
                              ![p].sent = @ + 1,
                              ![p].resp = EventDatabaseError("connection refused")]
       \/ IF EventExists(eh[p].id)
          THEN /\ events' = [events EXCEPT ![eh[p].id] = NoEvent]
               /\ eh' = [eh EXCEPT ![p].pc = "done", ![p].calls = {"delete"},
                                   ![p].sent = @ + 1,
                                   ![p].resp = [EventJson(200, "Event deleted successfully")
                                                EXCEPT !.event = DeletedColumns(events[eh[p].id])]]
          ELSE /\ UNCHANGED events
               /\ eh' = [eh EXCEPT ![p].pc = "done", ![p].calls = {"delete"},
                                   ![p].sent = @ + 1,
                                   ![p].resp = EventJson(404, "Event not found")]

EventNext ==
    \E p \in Handlers :
        \/ ReceiveGetEvents(p)
        \/ GetEvents(p)
        \/ ReceiveGetEventById(p)
        \/ GetEventById(p)
        \/ ReceiveCreateEvent(p)
        \/ CreateEvent(p)
        \/ ReceiveUpdateEvent(p)
        \/ UpdateEvent(p)
        \/ ReceiveDeleteEvent(p)
        \/ DeleteEvent(p)

EventSpec == Init /\ [][EventNext]_vars

\* ================================================================ services
\* Every handler of the three services, the read and delete handlers of the
\* building service included.

\* res.status(500).json({ message: 'Database error', error: err.message })
BuildingDatabaseError(detail) ==
    [NoBuildingResponse EXCEPT !.status = 500, !.message = "Database error",
                               !.error = detail]

ReceiveGetBuildings(p) == ReceiveBuilding(p, "getBuildings", 0, NoBuilding)

ReceiveGetBuildingById(p) ==
    \E id \in BuildingIds : ReceiveBuilding(p, "getBuildingById", id, NoBuilding)

ReceiveDeleteBuilding(p) ==
    \E id \in BuildingIds : ReceiveBuilding(p, "deleteBuilding", id, NoBuilding)

\* getBuildings: SELECT ... ORDER BY building_id, then res.json(result.rows)
GetBuildings(p) ==
    /\ bh[p].pc = "received" /\ bh[p].op = "getBuildings"
    /\ UNCHANGED <<organizers, h, requests, adminMails, approvedMails, commits, ADMIN_EMAIL,
                   buildings, eventVars>>
    /\ \/ bh' = [bh EXCEPT ![p].pc = "done", ![p].calls = {"select", "select_failed"},
                           ![p].sent = @ + 1,
                           ![p].resp = BuildingDatabaseError("connection refused")]
       \/ bh' = [bh EXCEPT ![p].pc = "done", ![p].calls = {"select"},
                           ![p].sent = @ + 1,
                           ![p].resp = [NoBuildingResponse EXCEPT
                               !.status = 200,
                               !.rows = SelectSeq(buildings, LAMBDA b : b # NoBuilding)]]

\* getBuildingById: the SELECT, then 404 or res.json(result.rows[0])
GetBuildingById(p) ==
    /\ bh[p].pc = "received" /\ bh[p].op = "getBuildingById"
    /\ UNCHANGED <<organizers, h, requests, adminMails, approvedMails, commits, ADMIN_EMAIL,
                   buildings, eventVars>>
    /\ \/ bh' = [bh EXCEPT ![p].pc = "done", ![p].calls = {"select", "select_failed"},
                           ![p].sent = @ + 1,
                           ![p].resp = BuildingDatabaseError("connection refused")]
       \/ IF BuildingExists(bh[p].id)
          THEN bh' = [bh EXCEPT ![p].pc = "done", ![p].calls = {"select"},
                                ![p].sent = @ + 1,
                                ![p].resp = [NoBuildingResponse EXCEPT
                                                !.status = 200,
                                                !.building = buildings[bh[p].id]]]
          ELSE bh' = [bh EXCEPT ![p].pc = "done", ![p].calls = {"select"},
                                ![p].sent = @ + 1,
                                ![p].resp = BuildingJson(404, "Building not found")]

\* deleteBuilding: DELETE ... RETURNING, then 404 or the deleted row
DeleteBuilding(p) ==
    /\ bh[p].pc = "received" /\ bh[p].op = "deleteBuilding"
    /\ UNCHANGED <<organizers, h, requests, adminMails, approvedMails, commits, ADMIN_EMAIL,
                   eventVars>>
    /\ \/ /\ UNCHANGED buildings
          /\ bh' = [bh EXCEPT ![p].pc = "done", ![p].calls = {"delete", "delete_failed"},
                              ![p].sent = @ + 1,
                              ![p].resp = BuildingDatabaseError("connection refused")]
       \/ IF BuildingExists(bh[p].id)
          THEN /\ buildings' = [buildings EXCEPT ![bh[p].id] = NoBuilding]
               /\ bh' = [bh EXCEPT ![p].pc = "done", ![p].calls = {"delete"},
                                   ![p].sent = @ + 1,
                                   ![p].resp = [BuildingJson(200, "Building deleted successfully")
                                                EXCEPT !.building = buildings[bh[p].id]]]
          ELSE /\ UNCHANGED buildings
               /\ bh' = [bh EXCEPT ![p].pc = "done", ![p].calls = {"delete"},
                                   ![p].sent = @ + 1,
                                   ![p].resp = BuildingJson(404, "Building not found")]

\* One request of each service is in flight at a time: a handler's response
\* count depends on its own invocation only.
ServiceHandlers == {"h1"}

\* Requests the three services accept together
MaxServiceRequests == 2

ServiceNext ==
    \E p \in ServiceHandlers :
        \/ (requests < MaxServiceRequests /\ ReceiveRegister(p))
        \/ RegisterSelect(p)
        \/ RegisterInsert(p)
        \/ RegisterMail(p)
        \/ (requests < MaxServiceRequests /\ ReceiveLogin(p))
        \/ Login(p)
        \/ (requests < MaxServiceRequests /\ ReceiveGetBuildings(p))
        \/ GetBuildings(p)
        \/ (requests < MaxServiceRequests /\ ReceiveGetBuildingById(p))
        \/ GetBuildingById(p)
        \/ (requests < MaxServiceRequests /\ ReceiveCreateBuilding(p))
        \/ CreateBuilding(p)
        \/ (requests < MaxServiceRequests /\ ReceiveUpdateBuilding(p))
        \/ UpdateBuilding(p)
        \/ (requests < MaxServiceRequests /\ ReceiveDeleteBuilding(p))
        \/ DeleteBuilding(p)
        \/ (requests < MaxServiceRequests /\ ReceiveGetEvents(p))
        \/ GetEvents(p)
        \/ (requests < MaxServiceRequests /\ ReceiveGetEventById(p))
        \/ GetEventById(p)
        \/ (requests < MaxServiceRequests /\ ReceiveCreateEvent(p))
        \/ CreateEvent(p)
        \/ (requests < MaxServiceRequests /\ ReceiveUpdateEvent(p))
        \/ UpdateEvent(p)
        \/ (requests < MaxServiceRequests /\ ReceiveDeleteEvent(p))
        \/ DeleteEvent(p)

ServiceSpec == Init /\ [][ServiceNext]_vars

\* ================================================================ properties
Done(p) == h[p].pc = "done"

\* the step in which handler p leaves "received": its validation and first query
FirstStep(p, op) == h[p].pc = "received" /\ h[p].op = op /\ h'[p].pc # "received"

\* some record of the table has this email
Used(email) == \E i \in DOMAIN organizers : organizers[i].email = email

\* the record of the table with this email has this status
UsedWithStatus(email, status) ==
    \E i \in DOMAIN organizers :
        organizers[i].email = email /\ organizers[i].status = status

\* the marks of a collaborator call that failed: a query of the pool, bcrypt,
\* jwt or the mail transport threw for a reason outside the workflow
Failures == {"select_failed", "hash_failed", "insert_failed", "mail_failed",
             "compare_failed", "sign_failed", "find_failed", "update_failed",
             "notify_failed"}

NoFailure(p) == h[p].calls \cap Failures = {}

\* the conflict response of a duplicate registration
EmailRegistered == Json(400, "Email (username) already registered")

\* ---------------------------------------------------------------- C1
\* C1: in every reachable state, whatever the interleaving of registrations,
\* no two organizer records have the same email, whatever their status.
C1_EmailUnique ==
    \A i, j \in DOMAIN organizers :
        organizers[i].email = organizers[j].email => i = j

\* two registrations of one email both passed the existence check; one inserted,
\* the other reached its INSERT afterwards
C1_Witness ==
    \E p, q \in Handlers :
        /\ p # q
        /\ h[p].op = "register" /\ h[q].op = "register"
        /\ h[p].body.email = h[q].body.email
        /\ Done(p) /\ "unique_violation" \in h[p].calls
        /\ "insert" \in h[q].calls /\ "unique_violation" \notin h[q].calls
        /\ h[q].user.organizer_ID \in DOMAIN organizers
        /\ h[q].user.email = h[p].body.email

\* ---------------------------------------------------------------- C2
\* C2: of two concurrent registrations of one unused email, the losing one
\* fails with the conflict response of a duplicate registration ("already
\* registered"), not with an internal error.
C2_LoserGetsConflict ==
    \A p \in Handlers :
        (Done(p) /\ h[p].op = "register" /\ "unique_violation" \in h[p].calls)
            => h[p].resp = EmailRegistered

C4_ValidRegisterSucceeds ==
    \A p \in Handlers :
        (/\ Done(p) /\ h[p].op = "register"
         /\ h[p].user.organizer_ID \in DOMAIN organizers
         /\ "insert" \in h[p].calls)
            => /\ h[p].resp.status = 201
               /\ h[p].resp.organizer.email = h[p].body.email
               /\ h[p].resp.organizer.status = "pending"

\* ---------------------------------------------------------------- C5
\* C5: a registration whose email a record already uses, in whatever status,
\* fails with the conflict response; the table is unchanged, no hash is
\* computed and no admin mail is sent.
C5_DuplicateRejected ==
    [][\A p \in Handlers :
        (/\ FirstStep(p, "register")
         /\ ~RequiredFieldsMissing(h[p].body)
         /\ Used(h[p].body.email)
         /\ "select_failed" \notin h'[p].calls)
            => /\ h'[p].pc = "done"
               /\ h'[p].resp = EmailRegistered
               /\ h'[p].calls = {"select"}
               /\ organizers' = organizers
               /\ adminMails' = adminMails]_vars

\* duplicates of a pending and of an approved record were both rejected
C5_Witness ==
    \E p, q \in Handlers :
        /\ Done(p) /\ h[p].op = "register" /\ h[p].resp = EmailRegistered
        /\ h[p].user.status = "pending"
        /\ Done(q) /\ h[q].op = "register" /\ h[q].resp = EmailRegistered
        /\ h[q].user.status = "approved"

\* ---------------------------------------------------------------- C6
\* C6: a login with the email of a pending record fails with 403 for every
\* password, correct or not; no token is issued and bcrypt.compare is not called.
C6_PendingCannotLogin ==
    [][\A p \in Handlers :
        (/\ FirstStep(p, "login")
         /\ ~CredentialsMissing(h[p].body)
         /\ UsedWithStatus(h[p].body.email, "pending")
         /\ "select_failed" \notin h'[p].calls)
            => /\ h'[p].pc = "done"
               /\ h'[p].resp = Json(403, "Account not approved by admin yet.")
               /\ h'[p].resp.token = NoToken
               /\ "compare" \notin h'[p].calls
               /\ "sign" \notin h'[p].calls]_vars

\* a pending organizer was refused although the password was the right one
C6_Witness ==
    \E p \in Handlers :
        /\ Done(p) /\ h[p].op = "login" /\ h[p].resp.status = 403
        /\ h[p].user.status = "pending"
        /\ h[p].user.password_hash = BcryptHash(h[p].body.password)

\* ---------------------------------------------------------------- C7
\* C7: a login with the email of an approved record succeeds (200, "Login
\* successful", a token) if and only if the supplied password hashes to the
\* stored hash; otherwise it fails as for an unknown email, with no token.
C7_ApprovedLogin ==
    \A p \in Handlers :
        (/\ Done(p) /\ h[p].op = "login"
         /\ h[p].user.status = "approved"
         /\ NoFailure(p))
            => IF h[p].user.password_hash = BcryptHash(h[p].body.password)
               THEN /\ h[p].resp.status = 200
                    /\ h[p].resp.message = "Login successful"
                    /\ h[p].resp.token # NoToken
               ELSE /\ h[p].resp = UnknownEmailResponse
                    /\ h[p].resp.token = NoToken

\* one login of an approved organizer succeeded and another, with the wrong
\* password, failed
C7_Witness ==
    \E p, q \in Handlers :
        /\ Done(p) /\ h[p].op = "login" /\ h[p].resp.status = 200
        /\ h[p].resp.token.username = h[p].body.email
        /\ Done(q) /\ h[q].op = "login" /\ h[q].user.status = "approved"
        /\ h[q].body.password = "wrong" /\ h[q].resp.status = 401

\* ---------------------------------------------------------------- C8
\* login with an email that no record has
UnknownEmailLogin(p) ==
    /\ Done(p) /\ h[p].op = "login"
    /\ ~CredentialsMissing(h[p].body)
    /\ h[p].calls = {"select"} /\ h[p].user = NoRow

\* login of an approved organizer with a password that does not verify
WrongPasswordLogin(p) ==
    /\ Done(p) /\ h[p].op = "login"
    /\ h[p].user.status = "approved"
    /\ h[p].calls = {"select", "compare"}
    /\ h[p].user.password_hash # BcryptHash(h[p].body.password)

\* C8: the response of a login with an unknown email and the response of a
\* login of an approved organizer with a wrong password are the same (status
\* code, message and every other part).
C8_Indistinguishable ==
    \A p, q \in Handlers :
        (UnknownEmailLogin(p) /\ WrongPasswordLogin(q)) => h[p].resp = h[q].resp

\* both kinds of failed login have been answered
C8_Witness ==
    \E p, q \in Handlers :
        /\ UnknownEmailLogin(p) /\ WrongPasswordLogin(q)
        /\ h[p].resp.status = 401 /\ h[q].resp.status = 401

\* ---------------------------------------------------------------- C9
\* the approval p wrote the status (it found the record pending and won)
Committed(p) ==
    /\ h[p].op = "approve" /\ "update" \in h[p].calls
    /\ "update_failed" \notin h[p].calls /\ "conflict" \notin h[p].calls

\* C9: the approval of a pending record succeeds and every later approval of
\* the identifier fails with ConflictError; after each of them the status is
\* approved, a failing approval changes nothing, and the organizer-approved
\* mail is sent once in total.
C9_ApproveNotIdempotent ==
    /\ [](\A id \in OrganizerIds :
            /\ commits[id] <= 1
            /\ approvedMails[id] <= commits[id]
            /\ commits[id] = 1 => organizers[id].status = "approved")
    /\ [](\A p \in Handlers :
            (Done(p) /\ Committed(p) /\ "notify_failed" \notin h[p].calls)
                => /\ h[p].resp.status = 200
                   /\ h[p].resp.organizer.status = "approved"
                   /\ approvedMails[h[p].body.organizerId] = 1)
    /\ [][\A p \in Handlers :
            (/\ FirstStep(p, "approve")
             /\ h[p].body.organizerId \in DOMAIN organizers
             /\ organizers[h[p].body.organizerId].status = "approved"
             /\ "find_failed" \notin h'[p].calls)
                => /\ h'[p].pc = "done"
                   /\ h'[p].resp = Json(400, "Organizer already approved")
                   /\ organizers' = organizers
                   /\ approvedMails' = approvedMails
                   /\ commits' = commits]_vars

\* in this behaviour a pending record was approved, and a later approval of it
\* was refused, the mail having been sent once
C9_Witness ==
    \E p \in Handlers :
        /\ Done(p) /\ h[p].op = "approve" /\ h[p].resp.status = 400
        /\ h[p].calls = {"find"}
        /\ h[p].body.organizerId = 2
        /\ Len(organizers) = 2 /\ organizers[2].status = "approved"
        /\ approvedMails[2] = 1 /\ commits[2] = 1

\* ---------------------------------------------------------------- C10
\* C10: an approval of an identifier that no record has fails with 404; it
\* changes no record and sends no organizer-approved mail.
C10_ApproveUnknownId ==
    [][\A p \in Handlers :
        (/\ FirstStep(p, "approve")
         /\ h[p].body.organizerId \notin DOMAIN organizers
         /\ "find_failed" \notin h'[p].calls)
            => /\ h'[p].pc = "done"
               /\ h'[p].resp.status = 404
               /\ h'[p].calls = {"find"}
               /\ organizers' = organizers
               /\ approvedMails' = approvedMails
               /\ commits' = commits]_vars

\* an approval of an unknown identifier has been answered
C10_Witness ==
    \E p \in Handlers :
        /\ Done(p) /\ h[p].op = "approve"
        /\ h[p].body.organizerId \notin DOMAIN organizers
        /\ h[p].resp.status = 404
        /\ h[p].user = NoRow

\* ---------------------------------------------------------------- C11
\* C11: when the organizer-approved notifier fails, the approval reports
\* failure; the status was written before the notification was attempted, so
\* a later approval of the identifier finds the record approved, fails with
\* the conflict and writes nothing.
C11_NotifierFailure ==
    /\ [](\A p \in Handlers :
            (h[p].op = "approve" /\ "notify_failed" \in h[p].calls)
                => /\ Done(p)
                   /\ h[p].resp.status = 500
                   /\ organizers[h[p].body.organizerId].status = "approved"
                   /\ commits[h[p].body.organizerId] = 1)
    /\ [](\A p \in Handlers :
            h[p].pc = "notify"
                => /\ organizers[h[p].body.organizerId].status = "approved"
                   /\ commits[h[p].body.organizerId] = 1)
    /\ [][\A p \in Handlers :
            (/\ FirstStep(p, "approve")
             /\ h[p].body.organizerId \in DOMAIN organizers
             /\ commits[h[p].body.organizerId] = 1
             /\ approvedMails[h[p].body.organizerId] = 0
             /\ "find_failed" \notin h'[p].calls)
                => /\ h'[p].resp = Json(400, "Organizer already approved")
                   /\ commits' = commits
                   /\ organizers' = organizers
                   /\ approvedMails' = approvedMails]_vars

\* the notifier of an approval failed, and a later approval of the same
\* identifier was refused
C11_Witness ==
    \E p \in Handlers :
        /\ Done(p) /\ h[p].op = "approve" /\ h[p].resp.status = 400
        /\ commits[h[p].body.organizerId] = 1
        /\ approvedMails[h[p].body.organizerId] = 0
        /\ \A q \in Handlers : h[q].pc # "notify"

\* ---------------------------------------------------------------- C13
\* C13: a record is created pending, its status is pending or approved, an
\* approved record stays approved, no record disappears, and no step of
\* register or login changes the status of a record that exists.
C13_StatusMonotonic ==
    /\ [](\A i \in DOMAIN organizers : organizers[i].status \in {"pending", "approved"})
    /\ [][/\ Len(organizers') >= Len(organizers)
          /\ \A i \in DOMAIN organizers :
                organizers[i].status = "approved" => organizers'[i].status = "approved"
          /\ \A i \in DOMAIN organizers' :
                i \notin DOMAIN organizers => organizers'[i].status = "pending"
          /\ \A p \in Handlers :
                (h[p].op \in {"register", "login"} /\ h'[p] # h[p] /\ h[p].pc # "done")
                    => \A i \in DOMAIN organizers :
                          organizers'[i].status = organizers[i].status]_vars

\* a record created pending by a registration has been approved
C13_Witness ==
    \E i \in DOMAIN organizers :
        /\ i > 1
        /\ organizers[i].status = "approved"
        /\ commits[i] = 1

\* ---------------------------------------------------------------- C14
\* C14: a registration whose admin notification fails, or is skipped because
\* no admin address is configured, still succeeds: the record stays in the
\* table and the response is 201.
C14_NotificationFailureKeepsSuccess ==
    \A p \in Handlers :
        (/\ Done(p) /\ h[p].op = "register"
         /\ ("mail_failed" \in h[p].calls \/ ~ADMIN_EMAIL)
         /\ h[p].user.organizer_ID \in DOMAIN organizers
         /\ "insert" \in h[p].calls)
            => /\ organizers[h[p].user.organizer_ID].email = h[p].body.email
               /\ h[p].resp.status = 201

\* ---------------------------------------------------------------- C15
\* C15: with no admin address configured, a valid registration of an unused
\* email sends no admin mail, records a warning, creates the pending record
\* and responds 201.
C15_NoAdminAddress ==
    /\ ~ADMIN_EMAIL => adminMails = EmptyBag
    /\ \A p \in Handlers :
        (/\ ~ADMIN_EMAIL
         /\ h[p].op = "register"
         /\ "insert" \in h[p].calls
         /\ "insert_failed" \notin h[p].calls
         /\ "unique_violation" \notin h[p].calls)
            => /\ Done(p)
               /\ h[p].calls = {"select", "hash", "insert", "warn"}
               /\ h[p].resp.status = 201
               /\ h[p].resp.organizer.status = "pending"
               /\ h[p].resp.organizer.email = h[p].body.email
               /\ h[p].user.organizer_ID \in DOMAIN organizers
               /\ organizers[h[p].user.organizer_ID].email = h[p].body.email

\* a registration completed without an admin address
C15_Witness ==
    \E p \in Handlers :
        /\ ~ADMIN_EMAIL /\ Done(p) /\ h[p].op = "register"
        /\ "warn" \in h[p].calls /\ h[p].resp.status = 201
        /\ organizers[h[p].user.organizer_ID].status = "pending"

\* ---------------------------------------------------------------- C16
\* C16: a registration with fname, lname, email or password missing or empty
\* fails with 400 and the required-fields message before any access to the
\* table: no query, no hash, no record, no mail.
C16_RequiredFields ==
    [][\A p \in Handlers :
        (/\ FirstStep(p, "register")
         /\ \/ h[p].body.fname = "" \/ h[p].body.lname = ""
            \/ h[p].body.email = "" \/ h[p].body.password = "")
            => /\ h'[p].pc = "done"
               /\ h'[p].resp =
                     Json(400, "fname, lname, Email (username) and Password are required")
               /\ h'[p].calls = {}
               /\ organizers' = organizers
               /\ adminMails' = adminMails]_vars

\* a registration without a password and one without an email were refused
C16_Witness ==
    \E p, q \in Handlers :
        /\ Done(p) /\ h[p].op = "register" /\ h[p].body.password = ""
        /\ h[p].resp.status = 400 /\ h[p].calls = {}
        /\ Done(q) /\ h[q].op = "register" /\ h[q].body.email = ""
        /\ h[q].resp.status = 400 /\ h[q].calls = {}

\* ---------------------------------------------------------------- C18
\* C18: a response that reports an internal error carries the generic
\* message only, and none of the text of the underlying error.
C18_GenericInternalError ==
    \A p \in Handlers :
        (Done(p) /\ h[p].resp.status = 500)
            => h[p].resp.message = "Internal server error" /\ h[p].resp.error = ""

\* ---------------------------------------------------------------- C12
\* C12: no response of an operation on organizers contains the stored
\* password hash or the plaintext password of an organizer: neither the
\* organizer of the response nor a row of a returned list carries a hash, and
\* no text of the response is a password.
C12_NoCredentialInResponse ==
    \A p \in Handlers :
        /\ h[p].resp.organizer.password_hash = <<>>
        /\ \A i \in DOMAIN h[p].resp.rows : h[p].resp.rows[i].password_hash = <<>>
        /\ h[p].resp.message \notin Passwords
        /\ h[p].resp.error \notin Passwords

\* ---------------------------------------------------------------- C17
\* C17: a registration with every required field present and an email
\* without '@' is answered 400 unless a collaborator failed, and no record with
\* that email is ever created.
C17_MalformedEmailRejected ==
    /\ ~Used(MalformedEmail)
    /\ \A p \in Handlers :
        (/\ Done(p) /\ h[p].op = "register"
         /\ h[p].body.email = MalformedEmail
         /\ h[p].body.fname # "" /\ h[p].body.lname # "" /\ h[p].body.password # ""
         /\ NoFailure(p))
            => h[p].resp.status = 400

\* ---------------------------------------------------------------- C19
\* C19: getOrganizers returns exactly the approved records, in the order of
\* their identifiers, and getOrganizerById answers 404 'Approved organizer not
\* found' for an identifier whose record is pending or absent and the record
\* for one that is approved.
C19_ApprovedOnly ==
    [][\A p \in Handlers :
        /\ (FirstStep(p, "getOrganizers") /\ "select_failed" \notin h'[p].calls)
              => LET rows == h'[p].resp.rows IN
                 /\ \A i \in DOMAIN rows :
                       /\ rows[i].organizer_ID \in DOMAIN organizers
                       /\ organizers[rows[i].organizer_ID].status = "approved"
                       /\ rows[i].email = organizers[rows[i].organizer_ID].email
                 /\ \A j \in DOMAIN organizers :
                       organizers[j].status = "approved"
                           => \E i \in DOMAIN rows : rows[i].organizer_ID = j
                 /\ \A i, k \in DOMAIN rows :
                       i < k => rows[i].organizer_ID < rows[k].organizer_ID
        /\ (FirstStep(p, "getOrganizerById") /\ "select_failed" \notin h'[p].calls)
              => LET id == h[p].body.organizerId IN
                 IF id \in DOMAIN organizers /\ organizers[id].status = "approved"
                 THEN /\ h'[p].resp.status = 200
                      /\ h'[p].resp.organizer.organizer_ID = id
                 ELSE h'[p].resp = Json(404, "Approved organizer not found")]_vars

\* with an approved and a pending record in the table, the list came back with
\* the approved one only and the pending one was asked for by identifier
C19_Witness ==
    \E p, q \in Handlers :
        /\ Len(organizers) = 2
        /\ organizers[1].status = "approved" /\ organizers[2].status = "pending"
        /\ Done(p) /\ h[p].op = "getOrganizers" /\ Len(h[p].resp.rows) = 1
        /\ Done(q) /\ h[q].op = "getOrganizerById" /\ h[q].body.organizerId = 2
        /\ h[q].resp.status = 404

\* ---------------------------------------------------------------- C20
\* C20: a createBuilding or updateBuilding whose write is rejected with a
\* unique-constraint violation (23505) answers 409 with a conflict message,
\* not 500.
C20_UniqueViolationIsConflict ==
    \A p \in Handlers :
        (bh[p].pc = "done" /\ "unique_violation" \in bh[p].calls)
            => /\ bh[p].resp.status = 409
               /\ bh[p].resp.message \in
                     {"Building ID already exists", "Building name must be unique"}

\* ---------------------------------------------------------------- C21
\* the step in which the event handler p runs from its entry to its response
EventStep(p, op) == eh[p].pc = "received" /\ eh[p].op = op /\ eh'[p].pc = "done"

\* the marks of a query of the event service that failed for a reason outside
\* the request
EventFailures == {"select_failed", "insert_failed", "update_failed", "delete_failed"}

\* C21: createEvent answers 400 and inserts nothing whenever end_time is not
\* later than start_time, and updateEvent answers 400 and updates nothing
\* whenever both times are supplied and end_time is not later than start_time.
C21_EndBeforeStartRejected ==
    [][\A p \in Handlers :
        /\ (/\ EventStep(p, "createEvent")
            /\ eh[p].body.event_name # ""
            /\ eh[p].body.start_time # "" /\ eh[p].body.end_time # ""
            /\ ValidTimestamp(eh[p].body.start_time) /\ ValidTimestamp(eh[p].body.end_time)
            /\ Instant(eh[p].body.end_time) <= Instant(eh[p].body.start_time)
            /\ eh'[p].calls \cap EventFailures = {})
              => eh'[p].resp.status = 400 /\ events' = events
        /\ (/\ EventStep(p, "updateEvent")
            /\ eh[p].body.start_time # "" /\ eh[p].body.end_time # ""
            /\ ValidTimestamp(eh[p].body.start_time) /\ ValidTimestamp(eh[p].body.end_time)
            /\ Instant(eh[p].body.end_time) <= Instant(eh[p].body.start_time)
            /\ eh'[p].calls \cap EventFailures = {})
              => eh'[p].resp.status = 400 /\ events' = events]_vars

\* ---------------------------------------------------------------- C22
\* C22: createEvent with a start_time or an end_time that is not a valid
\* date-time answers 400 and inserts nothing, even when end_time compares
\* greater than start_time.
C22_InvalidDateRejected ==
    \A p \in Handlers :
        (/\ eh[p].pc = "done" /\ eh[p].op = "createEvent"
         /\ eh[p].body.event_name # ""
         /\ eh[p].body.start_time # "" /\ eh[p].body.end_time # ""
         /\ (~ValidTimestamp(eh[p].body.start_time) \/ ~ValidTimestamp(eh[p].body.end_time))
         /\ eh[p].calls \cap EventFailures = {})
            => eh[p].resp.status = 400

\* ---------------------------------------------------------------- C28
\* C28: an updateEvent that succeeds leaves every field the request does not
\* supply (or supplies empty) as it was, sets every supplied field to the
\* supplied value and changes no other event; for an identifier that matches
\* no event it answers 404 and changes nothing.
C28_UpdateFrame ==
    [][\A p \in Handlers :
        /\ (EventStep(p, "updateEvent") /\ eh'[p].resp.status = 200)
              => LET id   == eh[p].id
                     body == eh[p].body
                 IN  /\ DOMAIN events' = DOMAIN events
                     /\ \A i \in DOMAIN events : i # id => events'[i] = events[i]
                     /\ events'[id].event_id = id
                     /\ events'[id].event_name =
                           IF body.event_name = "" THEN events[id].event_name
                           ELSE body.event_name
                     /\ events'[id].start_time =
                           IF body.start_time = "" THEN events[id].start_time
                           ELSE body.start_time
                     /\ events'[id].end_time =
                           IF body.end_time = "" THEN events[id].end_time
                           ELSE body.end_time
                     /\ events'[id].location =
                           IF body.location = "" THEN events[id].location
                           ELSE body.location
                     /\ events'[id].description =
                           IF body.description = "" THEN events[id].description
                           ELSE body.description
                     /\ events'[id].media_urls =
                           IF body.media_urls = "" THEN events[id].media_urls
                           ELSE body.media_urls
                     /\ events'[id].event_category =
                           IF body.event_category = "" THEN events[id].event_category
                           ELSE body.event_category
                     /\ events'[id].organizer_id =
                           IF body.organizer_id = 0 THEN events[id].organizer_id
                           ELSE body.organizer_id
                     /\ eh'[p].resp.event = events'[id]
        /\ (/\ EventStep(p, "updateEvent")
            /\ ~(eh[p].id \in DOMAIN events /\ events[eh[p].id] # NoEvent)
            /\ eh'[p].calls = {"update"})
              => /\ eh'[p].resp = [NoEventResponse EXCEPT !.status = 404,
                                                          !.message = "Event not found"]
                 /\ events' = events]_vars

\* an update that supplied only the description changed it and kept the name
\* and the times of the event, and an update of an unknown identifier got 404
C28_Witness ==
    \E p, q \in Handlers :
        /\ eh[p].pc = "done" /\ eh[p].op = "updateEvent" /\ eh[p].resp.status = 200
        /\ eh[p].body.description = "Updated description only"
        /\ eh[p].resp.event.event_name = "Hackathon"
        /\ eh[p].resp.event.start_time = Morning
        /\ events[eh[p].id].description = "Updated description only"
        /\ eh[q].pc = "done" /\ eh[q].op = "updateEvent" /\ eh[q].resp.status = 404

\* ---------------------------------------------------------------- C29
\* C29: after any sequence of createEvent and updateEvent, every stored event
\* has an end_time strictly later than its start_time.
C29_EndAfterStart ==
    \A i \in DOMAIN events :
        events[i] # NoEvent => Instant(events[i].end_time) > Instant(events[i].start_time)

\* ---------------------------------------------------------------- C23
\* the approval requests mailed for this email
MailsFor(email) == {m \in BagToSet(adminMails) : m.email = email}

\* C23: with an admin address configured, a registration that succeeded has
\* had the admin notifier invoked exactly once, after the insert, with the
\* display name fname, a space, lname, with the registered email and with the
\* identifier of the record just created in the approval link.
C23_AdminNotifiedOnce ==
    \A p \in Handlers :
        /\ (h[p].op = "register" /\ h[p].pc = "mail")
              => /\ h[p].user.organizer_ID \in DOMAIN organizers
                 /\ organizers[h[p].user.organizer_ID].email = h[p].body.email
                 /\ MailsFor(h[p].body.email) = {}
        /\ (/\ Done(p) /\ h[p].op = "register" /\ h[p].resp.status = 201
            /\ ADMIN_EMAIL)
              => /\ Cardinality(MailsFor(h[p].body.email)) = 1
                 /\ \A m \in MailsFor(h[p].body.email) :
                       /\ CopiesIn(m, adminMails) = 1
                       /\ m.organizer_name = h[p].body.fname \o " " \o h[p].body.lname
                       /\ m.approvalLink \in DOMAIN organizers
                       /\ organizers[m.approvalLink].email = h[p].body.email
                       /\ organizers[m.approvalLink].organizer_name = m.organizer_name

\* a registration succeeded and its mail carries the identifier of its record,
\* the second of the table
C23_Witness ==
    \E p \in Handlers :
        /\ ADMIN_EMAIL /\ Done(p) /\ h[p].op = "register" /\ h[p].resp.status = 201
        /\ h[p].user.organizer_ID = 2
        /\ \E m \in MailsFor(h[p].body.email) : m.approvalLink = 2

\* ---------------------------------------------------------------- C24
\* C24: a token issued by a successful login carries the identifier and the
\* email of the record that the SELECT found for the supplied email, and a
\* one-hour time bound.
C24_TokenOfTheOrganizer ==
    \A p \in Handlers :
        (Done(p) /\ h[p].op = "login" /\ h[p].resp.status = 200)
            => /\ h[p].user.email = h[p].body.email
               /\ h[p].resp.token.id = h[p].user.organizer_ID
               /\ h[p].resp.token.username = h[p].user.email
               /\ h[p].resp.token.expiresIn = "1h"

C26_ResponseAfterNotification ==
    \A p \in Handlers :
        /\ h[p].pc \in {"mail", "notify"} => h[p].resp = NoResponse
        /\ (/\ Done(p) /\ h[p].op = "register" /\ ADMIN_EMAIL
            /\ "insert" \in h[p].calls
            /\ "insert_failed" \notin h[p].calls /\ "unique_violation" \notin h[p].calls)
              => "mail" \in h[p].calls
        /\ (Done(p) /\ Committed(p)) => "notify" \in h[p].calls

\* one registration answered after its mail failed while the notification of
\* an approval is in flight
C26_Witness ==
    \E p, q \in Handlers :
        /\ Done(p) /\ h[p].op = "register" /\ "mail_failed" \in h[p].calls
        /\ h[p].resp.status = 500
        /\ h[q].pc = "notify" /\ h[q].resp = NoResponse

\* ---------------------------------------------------------------- C27
\* C27: every register, login and approval that was received eventually
\* reports an outcome, even when a query or a send never returns.
C27_EventuallyReports ==
    \A p \in Handlers :
        (h[p].pc = "received" /\ h[p].op \in {"register", "login", "approve"})
            ~> (h[p].pc = "done")

\* ---------------------------------------------------------------- C30
\* C30: every invocation of register, login and of the building and event
\* handlers that has returned sent exactly one response, whichever path it
\* took, and an invocation that has not returned yet sent none: no handler
\* ever sends two.
C30_ExactlyOneResponse ==
    \A p \in Handlers :
        /\ h[p].op \in {"register", "login"}
              => h[p].sent = (IF h[p].pc = "done" THEN 1 ELSE 0)
        /\ bh[p].sent = (IF bh[p].pc = "done" THEN 1 ELSE 0)
        /\ eh[p].sent = (IF eh[p].pc = "done" THEN 1 ELSE 0)

\* a registration answered once after its notification failed, and an event
\* handler answered once after its query failed
C30_Witness ==
    \E p, q \in Handlers :
        /\ Done(p) /\ h[p].op = "register" /\ "mail_failed" \in h[p].calls
        /\ h[p].sent = 1
        /\ eh[q].pc = "done" /\ eh[q].resp.status = 500 /\ eh[q].sent = 1
====
